---- MODULE Spec2Model ----
(***************************************************************************)
(* az_ssh_wrapper.py: translation of an OpenSSH argument vector into the   *)
(* argument vector of `az ssh`.                                            *)
(*                                                                         *)
(* A Python string is modelled as the sequence of its characters, each a   *)
(* one-character string, so that prefix tests, option clusters and         *)
(* `name=value` splitting are computed as getopt and the wrapper compute   *)
(* them.  A tuple (o, a) is the two-element sequence <<o, a>>.             *)
(***************************************************************************)
EXTENDS Integers, Sequences, FiniteSets, TLC

VARIABLES
    argv,           \* sys.argv[1:]
    pc,             \* position of main()
    opts,           \* list of (option, value) pairs returned by getopt
    args,           \* program arguments left after the options
    destination,    \* args.pop(0)
    err,            \* the exception caught at line 69, "none" if none
    az_path,        \* f'"{shutil.which("az")}"'
    arc_mode, subscription, resource_group, local_user,
    filtered_opts,  \* the parsed options that are not extension options
    ssh_opts,       \* the flattened tokens of the options kept by opt_filter
    exec_args,      \* the argument list handed to os.execvp
    stdout,         \* what has been printed
    exit_status,    \* argument of sys.exit, if it was called
    exec_calls      \* number of calls of os.execvp

vars == <<argv, pc, opts, args, destination, err, az_path, arc_mode,
          subscription, resource_group, local_user, filtered_opts, ssh_opts,
          exec_args, stdout, exit_status, exec_calls>>

-----------------------------------------------------------------------------
(* Python values *)

None == [some |-> FALSE, val |-> <<>>]
Some(v) == [some |-> TRUE, val |-> v]
\* truth value of an Optional[str]: None and '' are both falsy
truthy(x) == x.some /\ x.val /= <<>>

NoExit == [some |-> FALSE, val |-> 0]

\* str.startswith
startswith(s, p) == Len(s) >= Len(p) /\ SubSeq(s, 1, Len(p)) = p

\* str.endswith
endswith(s, p) ==
    Len(s) >= Len(p) /\ SubSeq(s, Len(s) - Len(p) + 1, Len(s)) = p

Min(S) == CHOOSE m \in S : \A n \in S : m <= n

\* x in list
contains(list, x) == \E i \in 1..Len(list) : list[i] = x

-----------------------------------------------------------------------------
(* The grammar handed to getopt *)

options ==
    <<"4", "6", "A", "a", "C", "f", "G", "g", "K", "k", "M", "N", "n", "q", "s", "T", "t", "V", "v", "X", "x", "Y", "y", "B", ":", "b", ":", "c", ":", "D", ":", "E", ":", "e", ":", "f", ":", "I", ":", "i", ":", "J", ":", "L", ":", "l", ":", "m", ":", "O", ":", "o", ":", "p", ":", "Q", ":", "R", ":", "S", ":", "W", ":", "w", ":">>

long_options ==
    << <<"a", "r", "c">>, <<"s", "u", "b", "s", "c", "r", "i", "p", "t", "i", "o", "n", "=">>, <<"r", "e", "s", "o", "u", "r", "c", "e", "-", "g", "r", "o", "u", "p", "=">>, <<"l", "o", "c", "a", "l", "-", "u", "s", "e", "r", "=">> >>

-----------------------------------------------------------------------------
(* getopt.getopt, as called at line 67.  A result is a record              *)
(* [err, opts, args]; err /= "none" stands for a raised GetoptError.       *)

Raise(kind) == [err |-> kind, opts |-> <<>>, args |-> <<>>]
Return(o, a) == [err |-> "none", opts |-> o, args |-> a]

\* a variant of short_has_arg in which any occurrence of the letter followed
\* by ':' makes it take a value
short_has_arg_any(opt) ==
    LET at == {i \in 1..Len(options) : options[i] = opt /\ opt /= ":"}
    IN  IF at = {}
        THEN [err |-> "not recognized", has_arg |-> FALSE]
        ELSE [err |-> "none",
              has_arg |-> \E i \in at :
                              i < Len(options) /\ options[i + 1] = ":"]

\* short_has_arg: the first occurrence of the letter in the option string
\* decides; ':' itself is never an option letter.
short_has_arg(opt) ==
    LET at == {i \in 1..Len(options) : options[i] = opt /\ opt /= ":"}
    IN  IF at = {}
        THEN [err |-> "not recognized", has_arg |-> FALSE]
        ELSE [err |-> "none",
              has_arg |-> Min(at) < Len(options)
                          /\ options[Min(at) + 1] = ":"]

RECURSIVE do_shorts(_, _, _)
do_shorts(o, optstring, a) ==
    IF optstring = <<>>
    THEN Return(o, a)
    ELSE LET opt  == Head(optstring)
             rest == Tail(optstring)
             h    == short_has_arg(opt)
         IN  IF h.err /= "none"
             THEN Raise(h.err)
             ELSE IF h.has_arg
             THEN IF rest = <<>>
                  THEN IF a = <<>>
                       THEN Raise("requires argument")
                       ELSE Return(Append(o, << <<"-", opt>>, Head(a) >>),
                                   Tail(a))
                  ELSE Return(Append(o, << <<"-", opt>>, rest >>), a)
             ELSE do_shorts(Append(o, << <<"-", opt>>, <<>> >>), rest, a)

\* long_has_args: an exact match, else a unique prefix of one long option
long_has_args(opt) ==
    LET possibilities == SelectSeq(long_options, LAMBDA o : startswith(o, opt))
        unique_match  == possibilities[1]
    IN  IF possibilities = <<>>
        THEN [err |-> "not recognized", has_arg |-> FALSE, opt |-> opt]
        ELSE IF contains(possibilities, opt)
        THEN [err |-> "none", has_arg |-> FALSE, opt |-> opt]
        ELSE IF contains(possibilities, opt \o <<"=">>)
        THEN [err |-> "none", has_arg |-> TRUE, opt |-> opt]
        ELSE IF Len(possibilities) > 1
        THEN [err |-> "not a unique prefix", has_arg |-> FALSE, opt |-> opt]
        ELSE IF endswith(unique_match, <<"=">>)
        THEN [err |-> "none", has_arg |-> TRUE,
              opt |-> SubSeq(unique_match, 1, Len(unique_match) - 1)]
        ELSE [err |-> "none", has_arg |-> FALSE, opt |-> unique_match]

\* a variant of do_longs that accepts a value given to a no-value option
do_longs_lenient(o, optin, a) ==
    LET eq     == {i \in 1..Len(optin) : optin[i] = "="}
        opt    == IF eq = {} THEN optin ELSE SubSeq(optin, 1, Min(eq) - 1)
        optarg == IF eq = {} THEN None
                  ELSE Some(SubSeq(optin, Min(eq) + 1, Len(optin)))
        h      == long_has_args(opt)
        name   == <<"-", "-">> \o h.opt
    IN  IF h.err /= "none"
        THEN Raise(h.err)
        ELSE IF h.has_arg
        THEN IF ~optarg.some
             THEN IF a = <<>>
                  THEN Raise("requires argument")
                  ELSE Return(Append(o, <<name, Head(a)>>), Tail(a))
             ELSE Return(Append(o, <<name, optarg.val>>), a)
        ELSE Return(Append(o, <<name, <<>> >>), a)

\* do_longs: --name, --name=value or --name value
do_longs(o, optin, a) ==
    LET eq     == {i \in 1..Len(optin) : optin[i] = "="}
        opt    == IF eq = {} THEN optin ELSE SubSeq(optin, 1, Min(eq) - 1)
        optarg == IF eq = {} THEN None
                  ELSE Some(SubSeq(optin, Min(eq) + 1, Len(optin)))
        h      == long_has_args(opt)
        name   == <<"-", "-">> \o h.opt
    IN  IF h.err /= "none"
        THEN Raise(h.err)
        ELSE IF h.has_arg
        THEN IF ~optarg.some
             THEN IF a = <<>>
                  THEN Raise("requires argument")
                  ELSE Return(Append(o, <<name, Head(a)>>), Tail(a))
             ELSE Return(Append(o, <<name, optarg.val>>), a)
        ELSE IF optarg.some
        THEN Raise("must not have an argument")
        ELSE Return(Append(o, <<name, <<>> >>), a)

\* a variant of the loop condition that takes "-" for an option
is_option_arg_dash(a) == a /= <<>> /\ startswith(a[1], <<"-">>)

\* the condition of getopt's while loop
is_option_arg(a) ==
    a /= <<>> /\ startswith(a[1], <<"-">>) /\ a[1] /= <<"-">>

RECURSIVE getopt_loop(_, _)
getopt_loop(o, a) ==
    IF ~is_option_arg(a)
    THEN Return(o, a)
    ELSE IF a[1] = <<"-", "-">>
    THEN Return(o, Tail(a))
    ELSE LET r == IF startswith(a[1], <<"-", "-">>)
                  THEN do_longs(o, SubSeq(a[1], 3, Len(a[1])), Tail(a))
                  ELSE do_shorts(o, SubSeq(a[1], 2, Len(a[1])), Tail(a))
         IN  IF r.err /= "none" THEN r ELSE getopt_loop(r.opts, r.args)

getopt(a) == getopt_loop(<<>>, a)

\* destination = args.pop(0): IndexError on an empty list
pop0(a) ==
    IF a = <<>>
    THEN [err |-> "IndexError", destination |-> <<>>, args |-> <<>>]
    ELSE [err |-> "none", destination |-> Head(a), args |-> Tail(a)]

-----------------------------------------------------------------------------
(* main, lines 74-117 *)

\* shutil.which("az") is a path or None; the f-string wraps it in quotes
WhichResults == { Some(<<"/", "u", "s", "r", "/", "b", "i", "n", "/", "a", "z">>), None }
quoted(w) == IF w.some THEN <<"\"">> \o w.val \o <<"\"">> ELSE <<"\"", "N", "o", "n", "e", "\"">>

NoExt ==
    [arc_mode |-> FALSE, subscription |-> None, resource_group |-> None,
     local_user |-> None, filtered_opts |-> <<>>]

\* a variant of the loop body that puts the option in front of the list
partition_step_prepend(acc, opt) ==
    LET o == opt[1]
        a == opt[2]
    IN  IF o = <<"-", "-", "a", "r", "c">> THEN [acc EXCEPT !.arc_mode = TRUE]
        ELSE IF o = <<"-", "-", "s", "u", "b", "s", "c", "r", "i", "p", "t", "i", "o", "n">>
        THEN [acc EXCEPT !.subscription = Some(a)]
        ELSE IF o = <<"-", "-", "r", "e", "s", "o", "u", "r", "c", "e", "-", "g", "r", "o", "u", "p">>
        THEN [acc EXCEPT !.resource_group = Some(a)]
        ELSE IF o = <<"-", "-", "l", "o", "c", "a", "l", "-", "u", "s", "e", "r">>
        THEN [acc EXCEPT !.local_user = Some(a)]
        ELSE [acc EXCEPT !.filtered_opts = <<opt>> \o @]

\* one iteration of the loop of lines 84-94
partition_step(acc, opt) ==
    LET o == opt[1]
        a == opt[2]
    IN  IF o = <<"-", "-", "a", "r", "c">> THEN [acc EXCEPT !.arc_mode = TRUE]
        ELSE IF o = <<"-", "-", "s", "u", "b", "s", "c", "r", "i", "p", "t", "i", "o", "n">>
        THEN [acc EXCEPT !.subscription = Some(a)]
        ELSE IF o = <<"-", "-", "r", "e", "s", "o", "u", "r", "c", "e", "-", "g", "r", "o", "u", "p">>
        THEN [acc EXCEPT !.resource_group = Some(a)]
        ELSE IF o = <<"-", "-", "l", "o", "c", "a", "l", "-", "u", "s", "e", "r">>
        THEN [acc EXCEPT !.local_user = Some(a)]
        ELSE [acc EXCEPT !.filtered_opts = Append(@, opt)]

RECURSIVE partition_loop(_, _)
partition_loop(acc, o) ==
    IF o = <<>> THEN acc
    ELSE partition_loop(partition_step(acc, Head(o)), Tail(o))

\* variants of opt_filter: one drops every -o, the other drops nothing
opt_filter_any_o(opt) == ~(opt[1] = <<"-", "o">>)

opt_filter_none(opt) == TRUE

\* opt_filter, line 59

opt_filter(opt) == ~(opt[1] = <<"-", "o">> /\ startswith(opt[2], <<"C", "o", "n", "t", "r", "o", "l">>))

\* a variant of the filter of line 101 that keeps the empty parts
truthy_parts_all(opt) == opt

\* filter(lambda o: o, opt), line 101

truthy_parts(opt) == SelectSeq(opt, LAMBDA o : o /= <<>>)

\* the loop of lines 96-101
RECURSIVE flatten(_)
flatten(fo) ==
    IF fo = <<>> THEN <<>>
    ELSE (IF opt_filter(Head(fo)) THEN truthy_parts(Head(fo)) ELSE <<>>)
         \o flatten(Tail(fo))

\* variants of lines 103-117: one emits the extension options outside arc
\* mode as well, the other tests them with "is not None"
assemble_always_ext(azp, arc, sub, rg, lu, dest, so, a) ==
    <<azp, <<"s", "s", "h">>>>
    \o (IF arc THEN << <<"a", "r", "c">> >> ELSE <<>>)
    \o (IF truthy(sub) THEN << <<"-", "-", "s", "u", "b", "s", "c", "r", "i", "p", "t", "i", "o", "n">>, sub.val >> ELSE <<>>)
    \o (IF truthy(rg) THEN << <<"-", "-", "r", "e", "s", "o", "u", "r", "c", "e", "-", "g", "r", "o", "u", "p">>, rg.val >> ELSE <<>>)
    \o (IF truthy(lu) THEN << <<"-", "-", "l", "o", "c", "a", "l", "-", "u", "s", "e", "r">>, lu.val >> ELSE <<>>)
    \o << <<"-", "-", "n", "a", "m", "e">>, dest >>
    \o (IF so /= <<>> \/ a /= <<>> THEN << <<"-", "-">> >> \o so \o a ELSE <<>>)

assemble_if_supplied(azp, arc, sub, rg, lu, dest, so, a) ==
    <<azp, <<"s", "s", "h">>>>
    \o (IF arc
        THEN << <<"a", "r", "c">> >>
             \o (IF sub.some THEN << <<"-", "-", "s", "u", "b", "s", "c", "r", "i", "p", "t", "i", "o", "n">>, sub.val >> ELSE <<>>)
             \o (IF rg.some THEN << <<"-", "-", "r", "e", "s", "o", "u", "r", "c", "e", "-", "g", "r", "o", "u", "p">>, rg.val >> ELSE <<>>)
             \o (IF lu.some THEN << <<"-", "-", "l", "o", "c", "a", "l", "-", "u", "s", "e", "r">>, lu.val >> ELSE <<>>)
             \o << <<"-", "-", "n", "a", "m", "e">>, dest >>
        ELSE << <<"-", "-", "n", "a", "m", "e">>, dest >>)
    \o (IF so /= <<>> \/ a /= <<>> THEN << <<"-", "-">> >> \o so \o a ELSE <<>>)

\* lines 103-117
assemble(azp, arc, sub, rg, lu, dest, so, a) ==
    <<azp, <<"s", "s", "h">>>>
    \o (IF arc
        THEN << <<"a", "r", "c">> >>
             \o (IF truthy(sub) THEN << <<"-", "-", "s", "u", "b", "s", "c", "r", "i", "p", "t", "i", "o", "n">>, sub.val >> ELSE <<>>)
             \o (IF truthy(rg) THEN << <<"-", "-", "r", "e", "s", "o", "u", "r", "c", "e", "-", "g", "r", "o", "u", "p">>, rg.val >> ELSE <<>>)
             \o (IF truthy(lu) THEN << <<"-", "-", "l", "o", "c", "a", "l", "-", "u", "s", "e", "r">>, lu.val >> ELSE <<>>)
             \o << <<"-", "-", "n", "a", "m", "e">>, dest >>
        ELSE << <<"-", "-", "n", "a", "m", "e">>, dest >>)
    \o (IF so /= <<>> \/ a /= <<>> THEN << <<"-", "-">> >> \o so \o a ELSE <<>>)

\* main as a function of the argument vector and of the result of which():
\* the outcome and, when os.execvp is reached, its argument list
main_result(av, w) ==
    LET g == getopt(av)
        p == pop0(g.args)
        x == partition_loop(NoExt, g.opts)
    IN  IF g.err /= "none" \/ p.err /= "none"
        THEN [outcome |-> "exit", exec_args |-> <<>>]
        ELSE [outcome |-> "exec",
              exec_args |-> assemble(quoted(w), x.arc_mode, x.subscription,
                                     x.resource_group, x.local_user,
                                     p.destination, flatten(x.filtered_opts),
                                     p.args)]

-----------------------------------------------------------------------------
(* The program *)

InitWith(inputs) ==
    /\ argv \in inputs
    /\ pc = "getopt"
    /\ opts = <<>>
    /\ args = <<>>
    /\ destination = <<>>
    /\ err = "none"
    /\ az_path = <<>>
    /\ arc_mode = FALSE
    /\ subscription = None
    /\ resource_group = None
    /\ local_user = None
    /\ filtered_opts = <<>>
    /\ ssh_opts = <<>>
    /\ exec_args = <<>>
    /\ stdout = <<>>
    /\ exit_status = NoExit
    /\ exec_calls = 0

\* line 67
Getopt ==
    /\ pc = "getopt"
    /\ LET g == getopt(argv)
       IN  IF g.err /= "none"
           THEN /\ err' = g.err
                /\ pc' = "except"
                /\ UNCHANGED <<opts, args>>
           ELSE /\ opts' = g.opts
                /\ args' = g.args
                /\ pc' = "pop"
                /\ UNCHANGED err
    /\ UNCHANGED <<argv, destination, az_path, arc_mode, subscription,
                   resource_group, local_user, filtered_opts, ssh_opts,
                   exec_args, stdout, exit_status, exec_calls>>

\* line 68
PopDestination ==
    /\ pc = "pop"
    /\ LET p == pop0(args)
       IN  IF p.err /= "none"
           THEN /\ err' = p.err
                /\ pc' = "except"
                /\ UNCHANGED <<args, destination>>
           ELSE /\ destination' = p.destination
                /\ args' = p.args
                /\ pc' = "which"
                /\ UNCHANGED err
    /\ UNCHANGED <<argv, opts, az_path, arc_mode, subscription,
                   resource_group, local_user, filtered_opts, ssh_opts,
                   exec_args, stdout, exit_status, exec_calls>>

\* lines 69-72
UsageExit ==
    /\ pc = "except"
    /\ stdout' = stdout \o <<"Error", "usage">>
    /\ exit_status' = [some |-> TRUE, val |-> 2]
    /\ pc' = "exited"
    /\ UNCHANGED <<argv, opts, args, destination, err, az_path, arc_mode,
                   subscription, resource_group, local_user, filtered_opts,
                   ssh_opts, exec_args, exec_calls>>

\* lines 74-76
Which ==
    /\ pc = "which"
    /\ \E w \in WhichResults : az_path' = quoted(w)
    /\ pc' = "partition"
    /\ UNCHANGED <<argv, opts, args, destination, err, arc_mode,
                   subscription, resource_group, local_user, filtered_opts,
                   ssh_opts, exec_args, stdout, exit_status, exec_calls>>

\* lines 78-94
Partition ==
    /\ pc = "partition"
    /\ LET x == partition_loop(NoExt, opts)
       IN  /\ arc_mode' = x.arc_mode
           /\ subscription' = x.subscription
           /\ resource_group' = x.resource_group
           /\ local_user' = x.local_user
           /\ filtered_opts' = x.filtered_opts
    /\ pc' = "flatten"
    /\ UNCHANGED <<argv, opts, args, destination, err, az_path, ssh_opts,
                   exec_args, stdout, exit_status, exec_calls>>

\* lines 96-101
Flatten ==
    /\ pc = "flatten"
    /\ ssh_opts' = flatten(filtered_opts)
    /\ pc' = "assemble"
    /\ UNCHANGED <<argv, opts, args, destination, err, az_path, arc_mode,
                   subscription, resource_group, local_user, filtered_opts,
                   exec_args, stdout, exit_status, exec_calls>>

\* lines 103-117
Assemble ==
    /\ pc = "assemble"
    /\ exec_args' = assemble(az_path, arc_mode, subscription, resource_group,
                             local_user, destination, ssh_opts, args)
    /\ pc' = "exec"
    /\ UNCHANGED <<argv, opts, args, destination, err, az_path, arc_mode,
                   subscription, resource_group, local_user, filtered_opts,
                   ssh_opts, stdout, exit_status, exec_calls>>

\* line 119: the process image is replaced, nothing of main runs after it
Exec ==
    /\ pc = "exec"
    /\ exec_calls' = exec_calls + 1
    /\ pc' = "execd"
    /\ UNCHANGED <<argv, opts, args, destination, err, az_path, arc_mode,
                   subscription, resource_group, local_user, filtered_opts,
                   ssh_opts, exec_args, stdout, exit_status>>

Next ==
    \/ Getopt
    \/ PopDestination
    \/ UsageExit
    \/ Which
    \/ Partition
    \/ Flatten
    \/ Assemble
    \/ Exec

Terminated == pc \in {"exited", "execd"}

-----------------------------------------------------------------------------
(* Argument vectors *)

MaxArgs == 4
MaxFlags == 2

SeqsUpTo(S, n) == UNION {[1..k -> S] : k \in 0..n}

\* the subsequence of s at the positions I, in order
RECURSIVE Pick(_, _)
Pick(s, I) ==
    IF I = {} THEN <<>>
    ELSE <<s[Min(I)]>> \o Pick(s, I \ {Min(I)})

SubSeqsOf(s) == {Pick(s, I) : I \in SUBSET (1..Len(s))}

\* options of every shape next to values that do and do not begin with
\* "Control", the empty string among them
PoolFilter ==
    { <<"-", "t">>, <<"-", "o">>, <<"-", "p">>, <<"-", "v", "p", "2", "2">>, <<"-", "o", "C", "o", "n", "t", "r", "o", "l", "M", "a", "s", "t", "e", "r", "=", "a", "u", "t", "o">>, <<"-", "-", "a", "r", "c">>,
      <<"-", "-", "l", "o", "c", "a", "l", "-", "u", "s", "e", "r">>, <<"C", "o", "n", "t", "r", "o", "l">>, <<"c", "o", "n", "t", "r", "o", "l">>, <<"X", "C", "o", "n", "t", "r", "o", "l">>, <<>>, <<"h", "o", "s", "t", "1">> }

\* recognized and unrecognized options, option terminators and positionals
PoolParse ==
    { <<"-", "t">>, <<"-", "o">>, <<"-", "Z">>, <<"-", "-", "a", "r", "c">>, <<"-", "-", "a", "r", "c", "=", "x">>, <<"-", "-", "b", "o", "g", "u", "s">>, <<"-", "-", "s", "u", "b">>,
      <<"-", "-", "=", "x">>, <<"-", "-">>, <<"-">>, <<"h", "o", "s", "t", "1">>, <<"C", "o", "n", "t", "r", "o", "l", "M", "a", "s", "t", "e", "r", "=", "a", "u", "t", "o">> }

\* ssh [-46AaCfGgKkMNnqsTtVvXxYy]
NoValueFlags == <<"4", "6", "A", "a", "C", "f", "G", "g", "K", "k", "M", "N", "n", "q", "s", "T", "t", "V", "v", "X", "x", "Y", "y">>
\* ssh [-B bind_interface] ... [-w local_tun[:remote_tun]]
ValueFlags == <<"B", "b", "c", "D", "E", "e", "F", "I", "i", "J", "L", "l", "m", "O", "o", "p", "Q", "R", "S", "W", "w">>

Range(s) == {s[i] : i \in 1..Len(s)}

FlagTokens == {<<"-", c>> : c \in Range(NoValueFlags)} \cup { <<"-", "t", "v">> }
Destinations == { <<"h", "o", "s", "t", "1">>, <<"1", ".", "2", ".", "3", ".", "4">> }

FlagVectors ==
    {f \o d : f \in SeqsUpTo(FlagTokens, MaxFlags),
              d \in {<<>>} \cup {<<h>> : h \in Destinations}}

FlagValues == { <<"2", "2">>, <<"C", "o", "n", "t", "r", "o", "l">>, <<"C", "o", "n", "t", "r", "o", "l", "P", "a", "t", "h", "=", "x">>, <<"c", "o", "n", "t", "r", "o", "l">> }

ValueFlagVectors ==
    UNION {{ SubSeq(<< <<"-", c>>, v, d >>, 1, k) : k \in 0..3 }
           \cup { << <<"-", c>> \o v, d >> }
           : c \in Range(ValueFlags), v \in FlagValues, d \in Destinations}

Example1 == << <<"1", ".", "2", ".", "3", ".", "4">> >>
Example2 == << <<"-", "t">>, <<"-", "o">>, <<"C", "o", "n", "t", "r", "o", "l", "M", "a", "s", "t", "e", "r", "=", "a", "u", "t", "o">>, <<"h", "o", "s", "t", "1">> >>
Example3 ==
    << <<"-", "-", "a", "r", "c">>, <<"-", "-", "s", "u", "b", "s", "c", "r", "i", "p", "t", "i", "o", "n">>, <<"s", "u", "b", "1">>, <<"-", "-", "r", "e", "s", "o", "u", "r", "c", "e", "-", "g", "r", "o", "u", "p">>, <<"r", "g", "1">>,
       <<"-", "-", "l", "o", "c", "a", "l", "-", "u", "s", "e", "r">>, <<"a", "d", "m", "i", "n">>, <<"s", "e", "r", "v", "e", "r", "1">> >>
Example4 == << <<"h", "o", "s", "t", "1">>, <<"l", "s">>, <<"-", "l", "a">> >>
\* extension options written --name=value, one of them with an empty value,
\* next to a forwarded flag and a remote command
Example5 ==
    << <<"-", "-", "a", "r", "c">>, <<"-", "-", "s", "u", "b", "s", "c", "r", "i", "p", "t", "i", "o", "n", "=">>, <<"-", "-", "r", "e", "s", "o", "u", "r", "c", "e", "-", "g", "r", "o", "u", "p">>, <<"r", "g", "1">>,
       <<"-", "-", "l", "o", "c", "a", "l", "-", "u", "s", "e", "r", "=", "a", "d", "m", "i", "n">>, <<"-", "t">>, <<"s", "e", "r", "v", "e", "r", "1">>, <<"l", "s">> >>

ExampleVectors ==
    UNION {SubSeqsOf(e) :
           e \in {Example1, Example2, Example3, Example4, Example5}}

Spec == InitWith(SeqsUpTo(PoolFilter, MaxArgs)) /\ [][Next]_vars
SpecParse == InitWith(SeqsUpTo(PoolParse, MaxArgs)) /\ [][Next]_vars
SpecFlags == InitWith(FlagVectors) /\ [][Next]_vars
SpecValueFlags == InitWith(ValueFlagVectors) /\ [][Next]_vars
SpecExamples == InitWith(ExampleVectors) /\ [][Next]_vars

-----------------------------------------------------------------------------
(* What the translation is expected to produce, stated over the parsed     *)
(* options and the argument vector *)

ExtNames ==
    { <<"-", "-", "a", "r", "c">>, <<"-", "-", "s", "u", "b", "s", "c", "r", "i", "p", "t", "i", "o", "n">>, <<"-", "-", "r", "e", "s", "o", "u", "r", "c", "e", "-", "g", "r", "o", "u", "p">>, <<"-", "-", "l", "o", "c", "a", "l", "-", "u", "s", "e", "r">> }

Control == <<"C", "o", "n", "t", "r", "o", "l">>

BeginsWithControl(v) ==
    Len(v) >= Len(Control) /\ \A i \in 1..Len(Control) : v[i] = Control[i]

IsControlOption(opt) == opt[1] = <<"-", "o">> /\ BeginsWithControl(opt[2])

Forwarded(o) == SelectSeq(o, LAMBDA opt : opt[1] \notin ExtNames)

Surviving(o) == SelectSeq(Forwarded(o), LAMBDA opt : ~IsControlOption(opt))

\* one token for an option without value, two for one with a value
TokensOf(opt) == IF opt[2] = <<>> THEN <<opt[1]>> ELSE <<opt[1], opt[2]>>

RECURSIVE Tokens(_)
Tokens(o) == IF o = <<>> THEN <<>> ELSE TokensOf(Head(o)) \o Tokens(Tail(o))

\* an argument at which getopt stops: it does not begin with '-', or is "-"
NonOption(tok) == tok = <<>> \/ tok[1] /= "-" \/ tok = <<"-">>

Flattened == pc \in {"assemble", "exec", "execd"}
Assembled == pc \in {"exec", "execd"}

\* the tokens that follow ["--name", destination] in the plan
ExpectedTail ==
    IF Surviving(opts) = <<>> /\ args = <<>>
    THEN <<>>
    ELSE << <<"-", "-">> >> \o Tokens(Surviving(opts)) \o args

-----------------------------------------------------------------------------
\* C1: a parsed option ('-o', v) whose value v begins with the exact prefix
\* "Control" contributes no token to the forwarded options, and every other
\* parsed option that is not an extension option is retained: the forwarded
\* tokens are those of the remaining options, and they are the tokens found
\* in the plan between the separator and the trailing positionals.
C1_ControlFilter ==
    /\ Flattened => ssh_opts = Tokens(Surviving(opts))
    /\ (Assembled /\ Surviving(opts) /= <<>>) =>
           LET last  == Len(exec_args) - Len(args)
               first == last - Len(Tokens(Surviving(opts))) + 1
           IN  /\ first > 1
               /\ exec_args[first - 1] = <<"-", "-">>
               /\ SubSeq(exec_args, first, last) = Tokens(Surviving(opts))

\* a Control option was parsed and dropped next to options that were kept,
\* one of them an '-o' whose value does not begin with "Control"
C1_Witness ==
    /\ pc = "execd"
    /\ \E i \in 1..Len(opts) : IsControlOption(opts[i])
    /\ \E j \in 1..Len(opts) : opts[j][1] = <<"-", "o">> /\ ~IsControlOption(opts[j])
    /\ ssh_opts /= <<>>

-----------------------------------------------------------------------------
-----------------------------------------------------------------------------
\* the letters of a token "-xyz" are all no-value flags
IsFlagToken(tok) ==
    /\ Len(tok) >= 2
    /\ tok[1] = "-"
    /\ \A i \in 2..Len(tok) : tok[i] \in Range(NoValueFlags)

\* no-value short flags followed by a single destination
OnlyFlagsAndDestination ==
    /\ argv /= <<>>
    /\ NonOption(argv[Len(argv)])
    /\ \A i \in 1..(Len(argv) - 1) : IsFlagToken(argv[i])

\* the flags of the tokens "-xyz", each written with its dash, in order
RECURSIVE FlagsOf(_)
FlagsOf(toks) ==
    IF toks = <<>> THEN <<>>
    ELSE [i \in 1..(Len(Head(toks)) - 1) |-> <<"-", Head(toks)[i + 1]>>]
         \o FlagsOf(Tail(toks))

\* C3, as claimed: for a vector of no-value short flags and a destination
\* the plan ends with ["--name", destination]: no separator, no forwarded
\* option.
C3_AsClaimed ==
    (Terminated /\ OnlyFlagsAndDestination) =>
        /\ pc = "execd"
        /\ exec_args = << az_path, <<"s", "s", "h">>, <<"-", "-", "n", "a", "m", "e">>, argv[Len(argv)] >>

\* C3, amended: for a vector of no-value short flags and a destination the
\* plan is ["--name", destination], followed, when at least one flag is
\* given, by the separator and one token per flag, the flag with its dash, in
\* input order; only without any flag is there no separator.
C3_FlagsForwarded ==
    (Terminated /\ OnlyFlagsAndDestination) =>
        /\ pc = "execd"
        /\ exec_args =
               << az_path, <<"s", "s", "h">>, <<"-", "-", "n", "a", "m", "e">>, argv[Len(argv)] >>
               \o (IF Len(argv) = 1 THEN <<>>
                   ELSE << <<"-", "-">> >>
                        \o FlagsOf(SubSeq(argv, 1, Len(argv) - 1)))

\* two flag arguments, one of them a cluster, were forwarded
C3_Witness ==
    /\ pc = "execd"
    /\ OnlyFlagsAndDestination
    /\ Len(argv) = 3
    /\ Len(opts) = 3
    /\ Len(exec_args) = 8

-----------------------------------------------------------------------------
\* C4: each value-bearing short flag of B b c D E e F I i J L l m O o p Q R
\* S W w, given with one value and a destination, is accepted, consumes
\* exactly that value and is forwarded after the separator as the two tokens
\* (flag, value), unless it is '-o' with a "Control"-prefixed value.
C4_ValueFlagsAccepted ==
    (/\ Terminated
     /\ Len(argv) = 3
     /\ Len(argv[1]) = 2
     /\ argv[1][1] = "-"
     /\ argv[1][2] \in Range(ValueFlags)
     /\ argv[2] /= <<>>
     /\ NonOption(argv[3])) =>
        /\ pc = "execd"
        /\ opts = << <<argv[1], argv[2]>> >>
        /\ exec_args =
               << az_path, <<"s", "s", "h">>, <<"-", "-", "n", "a", "m", "e">>, argv[3] >>
               \o (IF argv[1] = <<"-", "o">> /\ BeginsWithControl(argv[2])
                   THEN <<>>
                   ELSE << <<"-", "-">>, argv[1], argv[2] >>)

-----------------------------------------------------------------------------
\* C5, as claimed: no empty-string token appears anywhere in the plan.
C5_AsClaimed ==
    Assembled => \A i \in 1..Len(exec_args) : exec_args[i] /= <<>>

RECURSIVE TokenCount(_)
TokenCount(o) ==
    IF o = <<>> THEN 0
    ELSE (IF Head(o)[2] = <<>> THEN 1 ELSE 2) + TokenCount(Tail(o))

\* C5, amended: no empty-string token appears among the tokens of the
\* forwarded options or of the extension options: an empty string stands in
\* the plan only where the destination, or a trailing positional, is itself
\* the empty string.  A surviving no-value flag contributes exactly one token
\* and a surviving value flag with a non-empty value exactly two.
C5_NoEmptyOptionToken ==
    /\ Flattened =>
           /\ \A i \in 1..Len(ssh_opts) : ssh_opts[i] /= <<>>
           /\ Len(ssh_opts) = TokenCount(Surviving(opts))
    /\ Assembled =>
           LET firstArg == Len(exec_args) - Len(args) + 1
               dest     == firstArg - Len(ssh_opts)
                           - (IF ssh_opts /= <<>> \/ args /= <<>>
                              THEN 2 ELSE 1)
           IN  /\ dest >= 4
               /\ exec_args[dest] = destination
               /\ \A i \in 1..Len(exec_args) :
                      exec_args[i] = <<>> =>
                          \/ i = dest
                          \/ i >= firstArg /\ args[i - firstArg + 1] = <<>>

\* a no-value flag, a value flag with its value and a value flag with an
\* empty value survive, and the destination is the empty string
C5_Witness ==
    /\ pc = "execd"
    /\ destination = <<>>
    /\ Len(Surviving(opts)) = 3
    /\ Len(ssh_opts) = 4
    /\ \E i \in 1..Len(opts) : opts[i][2] = <<>> /\ opts[i][1] \in { <<"-", "o">>, <<"-", "p">> }

-----------------------------------------------------------------------------
GetoptErrors ==
    {"not recognized", "not a unique prefix", "requires argument",
     "must not have an argument"}

\* the two outcomes: the usage error, with the help text, status 2 and no
\* exec; and the exec, reached once, without the exit
Outcomes ==
    /\ pc = "exited" =>
           /\ err /= "none"
           /\ stdout = <<"Error", "usage">>
           /\ exit_status = [some |-> TRUE, val |-> 2]
           /\ exec_calls = 0
    /\ pc = "execd" =>
           /\ err = "none"
           /\ stdout = <<>>
           /\ ~exit_status.some
           /\ exec_calls = 1
    /\ pc \notin {"exited", "execd"} => exec_calls = 0 /\ ~exit_status.some

\* argument vectors whose first argument alone decides the failure, and
\* those without any argument that could be the destination
FirstIsUnknownShort ==
    /\ Len(argv[1]) >= 2
    /\ argv[1][1] = "-"
    /\ argv[1][2] \notin (Range(options) \ {":"}) \cup {"-"}

FirstIsUnknownLong ==
    /\ Len(argv[1]) >= 3
    /\ argv[1][1] = "-"
    /\ argv[1][2] = "-"
    /\ argv[1][3] \notin {"a", "s", "r", "l", "="}

FirstIsValuedArc == startswith(argv[1], <<"-", "-", "a", "r", "c", "=">>)

NoPositional ==
    \A i \in 1..Len(argv) : ~NonOption(argv[i]) /\ argv[i] /= <<"-", "-">>

\* the argument vector with the value cut off every argument --arc=value
WithoutArcValues(av) ==
    [i \in 1..Len(av) |->
        IF \E n \in { <<"-", "-", "a", "=">>, <<"-", "-", "a", "r", "=">>, <<"-", "-", "a", "r", "c", "=">> } : startswith(av[i], n)
        THEN <<"-", "-", "a", "r", "c">> ELSE av[i]]

\* C6, as claimed: the usage error comes from an unrecognized flag, a
\* value-bearing flag without its value or a missing destination, and every
\* other argument vector reaches the exec: a vector that ends in the usage
\* error because --arc was written with a value fails for one of these
\* causes as well.
C6_AsClaimed ==
    /\ Outcomes
    /\ pc = "exited" =>
           \/ err \in {"not recognized", "not a unique prefix",
                        "requires argument", "IndexError"}
           \/ main_result(WithoutArcValues(argv), None).outcome = "exit"

\* C6, amended: an argument vector in which option parsing meets an
\* unrecognized or ambiguous flag, a value-bearing flag without its value or
\* the no-value option --arc written with a value (--arc=x), or which has no
\* destination, ends in the usage error: help text, status 2, no exec.  Every
\* other argument vector reaches the exec exactly once and never the exit.
C6_UsageErrors ==
    /\ Outcomes
    /\ pc = "exited" => err \in GetoptErrors \cup {"IndexError"}
    /\ pc = "exited" =>
           (err = "IndexError") = (getopt(argv).err = "none")
    /\ (Terminated /\ NoPositional) => pc = "exited"
    /\ (Terminated /\ argv /= <<>> /\ FirstIsUnknownShort) =>
           pc = "exited" /\ err = "not recognized"
    /\ (Terminated /\ argv /= <<>> /\ FirstIsUnknownLong) =>
           pc = "exited" /\ err = "not recognized"
    /\ (Terminated /\ argv /= <<>> /\ FirstIsValuedArc) =>
           pc = "exited" /\ err = "must not have an argument"

\* --arc=x before a destination: none of the three claimed causes
C6_Witness ==
    /\ pc = "exited"
    /\ err = "must not have an argument"
    /\ Len(argv) = 2
    /\ argv[2] = <<"h", "o", "s", "t", "1">>

-----------------------------------------------------------------------------
ValueExtNames == ExtNames \ { <<"-", "-", "a", "r", "c">> }

IsValuedExt(tok) ==
    \E n \in ValueExtNames : startswith(tok, n \o <<"=">>)

\* the argument vector without the options --subscription, --resource-group
\* and --local-user that stand before the destination
RECURSIVE StripExt(_)
StripExt(av) ==
    IF av = <<>> THEN <<>>
    ELSE IF NonOption(Head(av)) \/ Head(av) = <<"-", "-">> THEN av
    ELSE IF Head(av) \in ValueExtNames
    THEN IF Len(av) >= 2 THEN StripExt(Tail(Tail(av))) ELSE av
    ELSE IF IsValuedExt(Head(av)) THEN StripExt(Tail(av))
    ELSE <<Head(av)>> \o StripExt(Tail(av))

\* the vectors on which StripExt removes exactly the options parsed as
\* extension options: the short options take no value and the long ones are
\* written in full
PlainOptions ==
    \A i \in 1..Len(argv) :
        \/ NonOption(argv[i])
        \/ IsFlagToken(argv[i])
        \/ argv[i] \in ExtNames \cup { <<"-", "-">> }
        \/ IsValuedExt(argv[i])

\* C7: without --arc, --subscription, --resource-group and --local-user with
\* any values are no error and the plan is the plan of the argument vector
\* without them: [az, "ssh", "--name", destination] and the unchanged tail.
C7_ExtIgnoredWithoutArc ==
    (Terminated /\ PlainOptions /\ (pc = "execd" => ~arc_mode)) =>
        /\ \A w \in WhichResults :
               (pc = "execd" => az_path = quoted(w)) =>
                   main_result(StripExt(argv), w)
                       = [outcome   |-> IF pc = "execd" THEN "exec"
                                        ELSE "exit",
                          exec_args |-> exec_args]
        /\ pc = "execd" =>
               exec_args = << az_path, <<"s", "s", "h">>, <<"-", "-", "n", "a", "m", "e">>, destination >>
                           \o ExpectedTail

\* extension options in both spellings, one with an empty value, were given
\* without --arc, next to a forwarded flag and a remote command
C7_Witness ==
    /\ pc = "execd"
    /\ PlainOptions
    /\ ~arc_mode
    /\ subscription.some
    /\ truthy(resource_group)
    /\ truthy(local_user)
    /\ ssh_opts /= <<>>
    /\ args /= <<>>
    /\ StripExt(argv) /= argv

-----------------------------------------------------------------------------
Supplied(name) == \E i \in 1..Len(opts) : opts[i][1] = name

\* the value of the last occurrence of the option
ValueOf(name) ==
    LET at == {i \in 1..Len(opts) : opts[i][1] = name}
    IN  opts[CHOOSE i \in at : \A j \in at : j <= i][2]

PairIfSupplied(name) ==
    IF Supplied(name) THEN <<name, ValueOf(name)>> ELSE <<>>

PairIfValued(name) ==
    IF Supplied(name) /\ ValueOf(name) /= <<>>
    THEN <<name, ValueOf(name)>> ELSE <<>>

ExtNeverForwarded ==
    /\ filtered_opts = Forwarded(opts)
    /\ \A i \in 1..Len(filtered_opts) : filtered_opts[i][1] \notin ExtNames

\* C8, as claimed: with --arc the plan is "arc", a name/value pair for each
\* of --subscription, --resource-group and --local-user that was supplied,
\* then ["--name", destination]; no extension option is forwarded.
C8_AsClaimed ==
    (Assembled /\ Supplied(<<"-", "-", "a", "r", "c">>)) =>
        /\ exec_args =
               << az_path, <<"s", "s", "h">>, <<"a", "r", "c">> >>
               \o PairIfSupplied(<<"-", "-", "s", "u", "b", "s", "c", "r", "i", "p", "t", "i", "o", "n">>)
               \o PairIfSupplied(<<"-", "-", "r", "e", "s", "o", "u", "r", "c", "e", "-", "g", "r", "o", "u", "p">>)
               \o PairIfSupplied(<<"-", "-", "l", "o", "c", "a", "l", "-", "u", "s", "e", "r">>)
               \o << <<"-", "-", "n", "a", "m", "e">>, destination >>
               \o ExpectedTail
        /\ ExtNeverForwarded

\* C8, amended: with --arc the plan is "arc", then a name/value pair for
\* each of --subscription, --resource-group and --local-user, in this order,
\* that was supplied with a non-empty value (none for an option not supplied
\* or whose value is the empty string), then ["--name", destination]; no
\* extension option is forwarded.
C8_ArcPlan ==
    (Assembled /\ Supplied(<<"-", "-", "a", "r", "c">>)) =>
        /\ arc_mode
        /\ exec_args =
               << az_path, <<"s", "s", "h">>, <<"a", "r", "c">> >>
               \o PairIfValued(<<"-", "-", "s", "u", "b", "s", "c", "r", "i", "p", "t", "i", "o", "n">>)
               \o PairIfValued(<<"-", "-", "r", "e", "s", "o", "u", "r", "c", "e", "-", "g", "r", "o", "u", "p">>)
               \o PairIfValued(<<"-", "-", "l", "o", "c", "a", "l", "-", "u", "s", "e", "r">>)
               \o << <<"-", "-", "n", "a", "m", "e">>, destination >>
               \o ExpectedTail
        /\ ExtNeverForwarded

\* --arc with an option of empty value, one of non-empty value and one that
\* was not supplied
C8_Witness ==
    /\ pc = "execd"
    /\ arc_mode
    /\ subscription = Some(<<>>)
    /\ truthy(resource_group)
    /\ ~local_user.some

-----------------------------------------------------------------------------
\* the option arguments are single flags and separate values, so that the
\* parsed options, flattened, are the arguments before the destination
SeparateOptions(n) ==
    \A i \in 1..n :
        /\ argv[i] /= <<>>
        /\ argv[i] /= <<"-", "-">>
        /\ argv[i][1] = "-" => Len(argv[i]) = 2

\* C9: the plan ends with ["--name", destination], followed by nothing when
\* no forwarded option survives and no positional trails, and otherwise by
\* the separator, the flattened surviving options in input order and the
\* trailing positionals verbatim in input order.
C9_Tail ==
    Assembled =>
        LET k == Len(argv) - Len(args)
        IN  /\ endswith(exec_args, << <<"-", "-", "n", "a", "m", "e">>, destination >> \o ExpectedTail)
            /\ ~arc_mode =>
                   exec_args = << az_path, <<"s", "s", "h">>, <<"-", "-", "n", "a", "m", "e">>, destination >>
                               \o ExpectedTail
            /\ k >= 1
            /\ destination = argv[k]
            /\ args = SubSeq(argv, k + 1, Len(argv))
            /\ SeparateOptions(k - 1) => Tokens(opts) = SubSeq(argv, 1, k - 1)

\* two surviving options, the second with a value, before a destination
C9_Witness ==
    /\ pc = "execd"
    /\ Len(Surviving(opts)) = 2
    /\ Surviving(opts)[1][1] /= Surviving(opts)[2][1]
    /\ Surviving(opts)[2][2] /= <<>>
    /\ SeparateOptions(Len(argv) - Len(args) - 1)

-----------------------------------------------------------------------------
\* C10: option parsing stops at the first non-option argument, the
\* destination: what follows it is forwarded verbatim and never interpreted.
\* An "-o ControlMaster=auto" there is kept, a "--arc" there does not enable
\* arc mode and an unrecognized flag there is no usage error.
C10_StopsAtDestination ==
    (Terminated /\ argv /= <<>> /\ NonOption(argv[1])) =>
        /\ pc = "execd"
        /\ opts = <<>>
        /\ ~arc_mode
        /\ exec_args =
               << az_path, <<"s", "s", "h">>, <<"-", "-", "n", "a", "m", "e">>, argv[1] >>
               \o (IF Len(argv) = 1 THEN <<>>
                   ELSE << <<"-", "-">> >> \o Tail(argv))

\* "-o ControlMaster=auto" and an unrecognized flag after the destination
C10_Witness ==
    /\ pc = "execd"
    /\ argv = << <<"h", "o", "s", "t", "1">>, <<"-", "o">>, <<"C", "o", "n", "t", "r", "o", "l", "M", "a", "s", "t", "e", "r", "=", "a", "u", "t", "o">>, <<"-", "Z">> >>

====
